---- MODULE Spec2Model ----
(***************************************************************************)
(* The tree encoder of biokb_taxtree: DbImporter / DbManager turn the      *)
(* (tax_id, parent_tax_id) rows of nodes.dmp into a nested-set encoding    *)
(* (tree_id, tree_parent_id, level, right_tree_id, is_leaf) and write the  *)
(* joined rows to the node table.                                          *)
(*                                                                         *)
(* A behaviour of Spec is one import_data call of a freshly started        *)
(* process on an empty store, up to the insert of the node rows: the dict  *)
(* bound to the default argument `tree={}` of __get_tree is empty when the *)
(* call starts. SpecReimport lets the process call import_data again, on   *)
(* the store and the dict the earlier calls left. SpecQuery goes on after  *)
(* the node rows with the import of the names and the calls of the two     *)
(* search endpoints of the API that read the encoding; what it records of  *)
(* a call is the dict the handler returns.                                 *)
(*                                                                         *)
(* SpecImportData is the whole of import_data with the files it reads: the *)
(* archive at a path, the download, the three tables, the removal of the   *)
(* archive, for DbImporter and, with its public methods, for DbManager.    *)
(* SpecApi is the process of the API: the credentials it reads when it     *)
(* starts and the two endpoints of the TTL files. SpecTurtle is the calls  *)
(* of recursive_get_parents of rdf/turtle.py.                              *)
(*                                                                         *)
(* Python's None is modelled by the number 0 (tax ids and tree ids are     *)
(* positive); a dict whose iteration order matters (tree) is a sequence of *)
(* its values in insertion order.                                          *)
(***************************************************************************)
EXTENDS Integers, Sequences, FiniteSets, TLC

\* largest number of rows of nodes.dmp in a batch
MaxNodes == 4

\* Python None
None == 0

VARIABLES
    cls,              \* the class whose import_data runs: "DbImporter" or "DbManager"
    df,               \* rows of nodes.dmp, in file order: [tax_id, parent_tax_id]
    pc,               \* position of import_data
    error,            \* the exception import_data raised, "none" while it has raised nothing
    pc_dict,          \* parent tax id -> list of child tax ids (__get_parent_child_dict)
    tree,             \* the dict tree_id -> TreeEntry of __get_tree, in insertion order
    stack,            \* the frames of the recursive calls of __get_tree, outermost first
    number_of_nodes,  \* the tree_id the outermost __get_tree call returned
    tree_pc_dict,     \* parent tree id -> list of child tree ids (__set_right_tree_ids)
    max_tree_id,      \* max(tree_cp_dict)
    k,                \* position of the loop of __set_right_tree_ids in tree.items()
    nodeTable,        \* rows of the node table, in insertion order
    store_at_call,    \* the rows of the node table when the running import_data call began
    nameTable,        \* rows of the name table, in insertion order
    request,          \* the last call of a search endpoint: its path and query parameters
    response,         \* what that call returned
    df_tree,          \* rdf/turtle.py: rows of nodes.dmp indexed by tax_id
    default_tax_ids,  \* the set bound to the default of the parameter tax_ids
    parent_id,        \* argument of the last recursive_get_parents call, None before
    returned_tax_ids, \* the set that call returned
    environ,          \* os.environ of the process of the API: variable -> value
    command,          \* how that process was started, and the options of the command
    USERNAME,         \* api/main.py: the module constant USERNAME
    PASSWORD,         \* api/main.py: the module constant PASSWORD
    api_pc,           \* position of the process of the API
    ttls_zip_exists,  \* os.path.exists(ZIPPED_TTLS_PATH)
    api_request,      \* the last request of a management endpoint
    api_response,     \* the status and the detail the endpoint answered
    rankedLineageTable, \* rows of the ranked lineage table, in insertion order
    files,            \* the file system: path -> the archive of the file, or NoFile
    path_zip_file,    \* DbImporter._path_zip_file
    call,             \* the running or last call of a method: its name and arguments
    unzipped,         \* the archive unzipped in DEFAULT_PATH_UNZIPPED_DATA_FOLDER, or NoFile
    path_data_folder  \* DbManager.path_data_folder

\* the state of db/importer.py, db/manager.py and the search endpoints
import_vars == <<cls, df, pc, error, pc_dict, tree, stack, number_of_nodes,
                 tree_pc_dict, max_tree_id, k, nodeTable, store_at_call,
                 nameTable, request, response, rankedLineageTable>>

\* the state of rdf/turtle.py
turtle_vars == <<df_tree, default_tax_ids, parent_id, returned_tax_ids>>

\* the state no step of the import and no search endpoint touches
\* the state of api/main.py and cli.py
api_vars == <<environ, command, USERNAME, PASSWORD, api_pc, ttls_zip_exists,
              api_request, api_response>>

\* the files and what the caller of the importer set
file_vars == <<files, path_zip_file, call, unzipped, path_data_folder>>

other_vars == <<turtle_vars, api_vars, file_vars>>

vars == <<import_vars, other_vars>>

\* what the steps of import_data that handle the nodes leave alone
outside_nodes == <<store_at_call, nameTable, request, response,
                   rankedLineageTable, other_vars>>

----------------------------------------------------------------------------
(* Sequence helpers *)

Range(s) == {s[i] : i \in 1..Len(s)}

Min(S) == CHOOSE x \in S : \A y \in S : x <= y
Max(S) == CHOOSE x \in S : \A y \in S : x >= y

\* list.remove(x): drops the first occurrence of x (the caller checks x is in the list)
ListRemove(s, x) ==
    LET i == Min({j \in 1..Len(s) : s[j] = x})
    IN  SubSeq(s, 1, i - 1) \o SubSeq(s, i + 1, Len(s))

----------------------------------------------------------------------------
(* The input: nodes.dmp *)

\* the tax_id column of the rows, in file order
TaxIdColumn(rows) == [i \in 1..Len(rows) |-> rows[i].tax_id]

TaxIds(rows) == Range(TaxIdColumn(rows))

\* the parent_tax_id of the row of tax id x
ParentOf(rows, x) == (CHOOSE r \in Range(rows) : r.tax_id = x).parent_tax_id

\* position of the row of tax id x in the file
RowIndex(rows, x) == CHOOSE i \in 1..Len(rows) : rows[i].tax_id = x

RECURSIVE AncestorsWithin(_, _, _)
\* x and the ids reached from x by following parent_tax_id at most steps times
AncestorsWithin(rows, x, steps) ==
    IF steps = 0 \/ x \notin TaxIds(rows) THEN {x}
    ELSE {x} \cup AncestorsWithin(rows, ParentOf(rows, x), steps - 1)

Ancestors(rows, x) == AncestorsWithin(rows, x, Len(rows))

\* b is a itself or a descendant of a: a is met on b's parent chain
IsDescendantOrSelf(rows, a, b) == a \in Ancestors(rows, b)

\* a parent id that matches no row
HasDanglingEdge(rows) ==
    \E r \in Range(rows) : r.parent_tax_id \notin TaxIds(rows)

\* a cycle of parent edges other than the self-loop of node 1
HasOtherCycle(rows) ==
    \E x \in TaxIds(rows) :
        /\ ~(x = 1 /\ ParentOf(rows, 1) = 1)
        /\ ParentOf(rows, x) \in TaxIds(rows)
        /\ x \in Ancestors(rows, ParentOf(rows, x))

HasRoot(rows) == 1 \in TaxIds(rows) /\ ParentOf(rows, 1) = 1

\* unique ids, one self-referencing root 1, every parent present, no other cycle
ValidEdgeSet(rows) ==
    /\ HasRoot(rows)
    /\ ~HasDanglingEdge(rows)
    /\ ~HasOtherCycle(rows)

\* the rows of tax ids ord[1], ord[2], ... in that file order, with parents par
Rows(ord, par) ==
    [i \in DOMAIN ord |-> [tax_id |-> ord[i], parent_tax_id |-> par[ord[i]]]]

\* batches of n rows with unique tax ids 1..n, in ascending or in descending
\* order of tax id in the file; a parent id is any of the tax ids or n + 1, an
\* id no row has
Batches(n) ==
    LET ascending == [i \in 1..n |-> i]
        descending == [i \in 1..n |-> n + 1 - i]
    IN  {Rows(ord, par) : ord \in {ascending, descending},
                          par \in [1..n -> 1..(n + 1)]}

----------------------------------------------------------------------------
(* TreeEntry and the dict tree *)

TreeEntry(tree_id, tree_parent_id, tax_id, level, is_leaf) ==
    [tree_id |-> tree_id, tree_parent_id |-> tree_parent_id, tax_id |-> tax_id,
     level |-> level, right_tree_id |-> None, is_leaf |-> is_leaf]

TreeKeys(t) == {t[i].tree_id : i \in 1..Len(t)}

\* tree[key]
TreeGet(t, key) == t[CHOOSE i \in 1..Len(t) : t[i].tree_id = key]

\* tree[e.tree_id] = e: an existing key keeps its place, a new key goes last
TreeSet(t, e) ==
    IF e.tree_id \in TreeKeys(t)
    THEN [i \in 1..Len(t) |-> IF t[i].tree_id = e.tree_id THEN e ELSE t[i]]
    ELSE Append(t, e)

----------------------------------------------------------------------------
\* no search endpoint has been called
NoRequest == [endpoint |-> "none"]
NoResponse == [status |-> None]

\* a variable os.environ does not hold, a name no module has bound yet
Unset == "<unset>"

NoCommand == [name |-> "none"]

\* no file at the path
NoFile == "<no file>"

\* constants.py: PATH_TO_ZIP_FILE, the path ending in new_taxdump.zip
PATH_TO_ZIP_FILE == "new_taxdump.zip"

\* PATH_TO_ZIP_FILE and the path of the archive of tests/dummy_data
Paths == {PATH_TO_ZIP_FILE, "dummy_taxtree_dump.zip"}

NoCall == [method |-> "none"]

Init ==
    /\ cls \in {"DbImporter", "DbManager"}
    /\ df = <<>>
    /\ pc = "recreate_db"
    /\ error = "none"
    /\ pc_dict = <<>>
    /\ tree = <<>>
    /\ stack = <<>>
    /\ number_of_nodes = None
    /\ tree_pc_dict = <<>>
    /\ max_tree_id = None
    /\ k = 0
    /\ nodeTable = <<>>
    /\ store_at_call = <<>>
    /\ nameTable = <<>>
    /\ request = NoRequest
    /\ response = NoResponse
    /\ df_tree = <<>>
    /\ default_tax_ids = {}
    /\ parent_id = None
    /\ returned_tax_ids = {}
    /\ environ = [API_USERNAME |-> Unset, API_PASSWORD |-> Unset]
    /\ command = NoCommand
    /\ USERNAME = Unset
    /\ PASSWORD = Unset
    /\ api_pc = "not_started"
    /\ ttls_zip_exists = FALSE
    /\ api_request = NoRequest
    /\ api_response = NoResponse
    /\ rankedLineageTable = <<>>
    /\ files = [p \in Paths |-> NoFile]
    /\ path_zip_file = PATH_TO_ZIP_FILE
    /\ call = NoCall
    /\ unzipped = NoFile
    /\ path_data_folder = Unset

\* Dropped when drop_all leaves the rows
DroppedKeepingRows(table) == table

\* a table after drop_all and create_all
Dropped(table) == <<>>

\* recreate_db: drop_all, create_all; every table of the store is empty afterwards
RecreateDb ==
    /\ pc = "recreate_db"
    /\ UNCHANGED other_vars
    /\ nodeTable' = Dropped(nodeTable)
    /\ nameTable' = Dropped(nameTable)
    /\ rankedLineageTable' = Dropped(rankedLineageTable)
    /\ pc' = "read_csv"
    /\ UNCHANGED <<cls, df, error, pc_dict, tree, stack, number_of_nodes,
                   tree_pc_dict, max_tree_id, k, store_at_call, request, response>>

\* pd.read_csv of nodes.dmp: the batch is any of those of at most MaxNodes rows
ReadCsv ==
    /\ pc = "read_csv"
    /\ \E n \in 1..MaxNodes : df' \in Batches(n)
    /\ pc' = "get_parent_child_dict"
    /\ UNCHANGED <<cls, error, pc_dict, tree, stack, number_of_nodes,
                   tree_pc_dict, max_tree_id, k, nodeTable>>
    /\ UNCHANGED outside_nodes

----------------------------------------------------------------------------
(* __get_parent_child_dict *)

\* GroupList with the lists built back to front
GroupListReversed(rows, p) ==
    LET sel == SelectSeq(rows, LAMBDA r : r.parent_tax_id = p)
    IN  [i \in 1..Len(sel) |-> sel[Len(sel) + 1 - i].tax_id]

\* groupby("parent_tax_id")["tax_id"].apply(list): the tax ids of the rows whose
\* parent is p, in file order
GroupList(rows, p) ==
    LET sel == SelectSeq(rows, LAMBDA r : r.parent_tax_id = p)
    IN  [i \in 1..Len(sel) |-> sel[i].tax_id]

\* .to_dict(): one key per parent_tax_id value that occurs
GroupByParent(rows) ==
    [p \in {r.parent_tax_id : r \in Range(rows)} |-> GroupList(rows, p)]

\* pc_dict.get(tax_id, [])
DictGet(d, key) == IF key \in DOMAIN d THEN d[key] ELSE <<>>

\* __get_tree_df up to the call of __get_tree: pc_dict[1].remove(1) raises
\* KeyError when no row has parent 1 and ValueError when row 1 has another parent
GetParentChildDict ==
    /\ pc = "get_parent_child_dict"
    /\ LET d == GroupByParent(df)
       IN  IF 1 \notin DOMAIN d
           THEN /\ pc' = "failed"
                /\ error' = "KeyError"
                /\ pc_dict' = d
           ELSE IF 1 \notin Range(d[1])
           THEN /\ pc' = "failed"
                /\ error' = "ValueError"
                /\ pc_dict' = d
           ELSE /\ pc' = "get_tree_root"
                /\ error' = error
                /\ pc_dict' = [d EXCEPT ![1] = ListRemove(d[1], 1)]
    /\ UNCHANGED <<cls, df, tree, stack, number_of_nodes, tree_pc_dict,
                   max_tree_id, k, nodeTable>>
    /\ UNCHANGED outside_nodes

----------------------------------------------------------------------------
(* __get_tree: one frame per active call *)

Frame(tree_entry, level, tree_id) ==
    [tree_id_of_entry |-> tree_entry.tree_id, tax_id |-> tree_entry.tax_id,
     level |-> level, tree_id |-> tree_id, i |-> 0]

Top == stack[Len(stack)]

\* IsLeaf without its `not`
IsLeafNotNegated(child_tax_id, d) == child_tax_id \in DOMAIN d

\* is_leaf=not bool(child_tax_id in pc_dict)
IsLeaf(child_tax_id, d) == ~(child_tax_id \in DOMAIN d)

\* TreeIdAfterCall when the returned counter is dropped
TreeIdAfterCallDropped(own_tree_id, returned_tree_id) == own_tree_id

\* tree, tree_id = self.__get_tree(...): the caller's counter after a child returns
TreeIdAfterCall(own_tree_id, returned_tree_id) == returned_tree_id

\* NextChild when the loop leaves out every other child
NextChildSkipping(i) == i + 2

\* `for child_tax_id in children`: the position of the loop after the i-th child
NextChild(i) == i + 1

\* the root entry is built and __get_tree(root, pc_dict) is entered with the
\* defaults level=0, tree_id=1: tree[1] = root, level += 1
GetTreeRoot ==
    /\ pc = "get_tree_root"
    /\ LET root == TreeEntry(1, None, 1, 1, FALSE)
       IN  /\ tree' = TreeSet(tree, root)
           /\ stack' = <<Frame(root, 0 + 1, 1)>>
    /\ pc' = "get_tree"
    /\ UNCHANGED <<cls, df, error, pc_dict, number_of_nodes, tree_pc_dict,
                   max_tree_id, k, nodeTable>>
    /\ UNCHANGED outside_nodes

\* one iteration of `for child_tax_id in children` up to and including the entry
\* of the recursive call: tree[new_tree_id] = new_tree_entry, level += 1
GetTreeChild ==
    /\ pc = "get_tree"
    /\ LET children == DictGet(pc_dict, Top.tax_id)
       IN  /\ Top.i < Len(children)
           /\ LET child_tax_id == children[Top.i + 1]
                  new_tree_id == Top.tree_id + 1
                  new_tree_entry ==
                      TreeEntry(new_tree_id, Top.tree_id_of_entry, child_tax_id,
                                Top.level, IsLeaf(child_tax_id, pc_dict))
              IN  /\ tree' = TreeSet(tree, new_tree_entry)
                  /\ stack' = Append(stack,
                                     Frame(new_tree_entry, Top.level + 1, new_tree_id))
    /\ UNCHANGED <<cls, df, pc, error, pc_dict, number_of_nodes, tree_pc_dict,
                   max_tree_id, k, nodeTable>>
    /\ UNCHANGED outside_nodes

\* `return tree, tree_id` of a recursive call: the caller takes the counter and
\* goes on with its next child
GetTreeReturn ==
    /\ pc = "get_tree"
    /\ Len(stack) > 1
    /\ Top.i = Len(DictGet(pc_dict, Top.tax_id))
    /\ LET caller == stack[Len(stack) - 1]
       IN  stack' = [SubSeq(stack, 1, Len(stack) - 1) EXCEPT
                        ![Len(stack) - 1] =
                            [caller EXCEPT
                                !.tree_id = TreeIdAfterCall(caller.tree_id, Top.tree_id),
                                !.i = NextChild(caller.i)]]
    /\ UNCHANGED <<cls, df, pc, error, pc_dict, tree, number_of_nodes,
                   tree_pc_dict, max_tree_id, k, nodeTable>>
    /\ UNCHANGED outside_nodes

\* `return tree, tree_id` of the outermost call, to __get_tree_df
GetTreeDone ==
    /\ pc = "get_tree"
    /\ Len(stack) = 1
    /\ Top.i = Len(DictGet(pc_dict, Top.tax_id))
    /\ number_of_nodes' = Top.tree_id
    /\ stack' = <<>>
    /\ pc' = "set_right_tree_ids"
    /\ UNCHANGED <<cls, df, error, pc_dict, tree, tree_pc_dict, max_tree_id, k,
                   nodeTable>>
    /\ UNCHANGED outside_nodes

----------------------------------------------------------------------------
(* __set_right_tree_ids (DbImporter) / set_right_tree_ids (DbManager) *)

\* tree_pc_dict: for every entry with a truthy tree_parent_id, in tree.items()
\* order, tree_pc_dict[e.tree_parent_id].append(child_tree_id)
TreeParentChildDict(t) ==
    [p \in {t[i].tree_parent_id : i \in 1..Len(t)} \ {None} |->
        LET sel == SelectSeq(t, LAMBDA e : e.tree_parent_id = p)
        IN  [i \in 1..Len(sel) |-> sel[i].tree_id]]

\* the keys of tree_cp_dict: the entries with a truthy tree_parent_id
TreeChildParentKeys(t) ==
    {t[i].tree_id : i \in {j \in 1..Len(t) : t[j].tree_parent_id # None}}

\* UpdatesEntryImporter with the leaves skipped
UpdatesEntryImporterSkippingLeaves(e) == ~e.is_leaf /\ e.tree_parent_id # None

\* DbImporter: `elif e.tree_parent_id != None`
UpdatesEntryImporter(e) == e.tree_parent_id # None

\* UpdatesEntryManager with the leaves not skipped
UpdatesEntryManagerWithLeaves(e) == e.tree_parent_id # None

\* DbManager: `elif not e.is_leaf and e.tree_parent_id != None`
UpdatesEntryManager(e) == ~e.is_leaf /\ e.tree_parent_id # None

\* the branch `elif ...` of the loop, of the class that runs
UpdatesEntry(c, e) ==
    IF c = "DbImporter" THEN UpdatesEntryImporter(e) ELSE UpdatesEntryManager(e)

\* RightSibling with max for min
RightSiblingMax(sibling_tree_ids) == Max(sibling_tree_ids)

\* e.right_tree_id = min(sibling_tree_ids)
RightSibling(sibling_tree_ids) == Min(sibling_tree_ids)

\* e.right_tree_id = max_tree_id + 1, for the entry of key 1
RootRightTreeId(max_id) == max_id + 1

\* the right_tree_id the loop body gives the entry e of key e.tree_id, e.right_tree_id
\* itself when the body leaves the entry alone
RightTreeIdOf(c, t, tpc, max_id, e) ==
    IF e.tree_id = 1
    THEN RootRightTreeId(max_id)
    ELSE IF UpdatesEntry(c, e)
    THEN LET sibling_tree_ids ==
                 {x \in Range(DictGet(tpc, e.tree_parent_id)) : x > e.tree_id}
         IN  IF sibling_tree_ids # {}
             THEN RightSibling(sibling_tree_ids)
             ELSE TreeGet(t, e.tree_parent_id).right_tree_id
    ELSE e.right_tree_id

\* the two dicts are built; max(tree_cp_dict) raises ValueError on an empty dict
SetRightTreeIdsStart ==
    /\ pc = "set_right_tree_ids"
    /\ tree_pc_dict' = TreeParentChildDict(tree)
    /\ IF TreeChildParentKeys(tree) = {}
       THEN /\ pc' = "failed"
            /\ error' = "ValueError"
            /\ UNCHANGED <<max_tree_id, k>>
       ELSE /\ max_tree_id' = Max(TreeChildParentKeys(tree))
            /\ k' = 1
            /\ pc' = "set_right_tree_ids_loop"
            /\ error' = error
    /\ UNCHANGED <<cls, df, pc_dict, tree, stack, number_of_nodes, nodeTable>>
    /\ UNCHANGED outside_nodes

\* one iteration of `for tree_id, e in tree.items()`; after the last one
\* __get_tree_df builds the DataFrame and returns to the import of the nodes
SetRightTreeIdsLoop ==
    /\ pc = "set_right_tree_ids_loop"
    /\ k <= Len(tree)
    /\ tree' = [tree EXCEPT ![k].right_tree_id =
                    RightTreeIdOf(cls, tree, tree_pc_dict, max_tree_id, tree[k])]
    /\ k' = k + 1
    /\ pc' = IF k = Len(tree) THEN "to_sql" ELSE pc
    /\ UNCHANGED <<cls, df, error, pc_dict, stack, number_of_nodes, tree_pc_dict,
                   max_tree_id, nodeTable>>
    /\ UNCHANGED outside_nodes

----------------------------------------------------------------------------
(* df.set_index("tax_id").join(df_tree).to_sql(node table, if_exists="append") *)

\* the joined rows of one row of nodes.dmp: one per tree entry of its tax_id, or
\* one with the five tree columns null when the tree has no entry for it
JoinRow(r, t) ==
    LET m == SelectSeq(t, LAMBDA e : e.tax_id = r.tax_id)
    IN  IF Len(m) = 0
        THEN << [tax_id |-> r.tax_id, parent_tax_id |-> r.parent_tax_id,
                 tree_id |-> None, tree_parent_id |-> None, level |-> None,
                 right_tree_id |-> None, is_leaf |-> None] >>
        ELSE [i \in 1..Len(m) |->
                 [tax_id |-> r.tax_id, parent_tax_id |-> r.parent_tax_id,
                  tree_id |-> m[i].tree_id, tree_parent_id |-> m[i].tree_parent_id,
                  level |-> m[i].level, right_tree_id |-> m[i].right_tree_id,
                  is_leaf |-> m[i].is_leaf]]

RECURSIVE LeftJoin(_, _)
\* the left join on tax_id, in the order of the rows of nodes.dmp
LeftJoin(rows, t) ==
    IF rows = <<>> THEN <<>>
    ELSE JoinRow(Head(rows), t) \o LeftJoin(Tail(rows), t)

\* NotNullHolds when the tree columns are declared nullable
NotNullUnchecked(rows) == TRUE

\* the columns Node declares Mapped[int] / Mapped[bool] are NOT NULL: tree_id,
\* level and is_leaf (is_leaf is null in a joined row exactly when tree_id is)
NotNullHolds(rows) ==
    \A r \in Range(rows) : r.tree_id # None /\ r.level # None

\* tax_id is the primary key of Node
PrimaryKeyHolds(rows) ==
    \A i, j \in 1..Len(rows) : rows[i].tax_id = rows[j].tax_id => i = j

\* the joined rows are inserted in one transaction; a violated constraint raises
\* IntegrityError and no row is stored
ToSql ==
    /\ pc = "to_sql"
    /\ LET joined == LeftJoin(df, tree)
       IN  IF NotNullHolds(joined) /\ PrimaryKeyHolds(nodeTable \o joined)
           THEN /\ nodeTable' = nodeTable \o joined
                /\ pc' = "done"
                /\ error' = error
           ELSE /\ nodeTable' = nodeTable
                /\ pc' = "failed"
                /\ error' = "IntegrityError"
    /\ UNCHANGED <<cls, df, pc_dict, tree, stack, number_of_nodes, tree_pc_dict,
                   max_tree_id, k>>
    /\ UNCHANGED outside_nodes

Next ==
    \/ RecreateDb
    \/ ReadCsv
    \/ GetParentChildDict
    \/ GetTreeRoot
    \/ GetTreeChild
    \/ GetTreeReturn
    \/ GetTreeDone
    \/ SetRightTreeIdsStart
    \/ SetRightTreeIdsLoop
    \/ ToSql

Spec == Init /\ [][Next]_vars

----------------------------------------------------------------------------
(* Several import_data calls of one process *)

\* largest number of rows of nodes.dmp in a batch, where the batch is one of
\* several a process reads or where the stored tree is queried
MaxSmallNodes == 3

\* ReadCsv on the smaller batches
ReadCsvSmall ==
    /\ pc = "read_csv"
    /\ \E n \in 1..MaxSmallNodes : df' \in Batches(n)
    /\ pc' = "get_parent_child_dict"
    /\ UNCHANGED <<cls, error, pc_dict, tree, stack, number_of_nodes,
                   tree_pc_dict, max_tree_id, k, nodeTable>>
    /\ UNCHANGED outside_nodes

\* one import_data call on a smaller batch
NextSmall ==
    \/ RecreateDb
    \/ ReadCsvSmall
    \/ GetParentChildDict
    \/ GetTreeRoot
    \/ GetTreeChild
    \/ GetTreeReturn
    \/ GetTreeDone
    \/ SetRightTreeIdsStart
    \/ SetRightTreeIdsLoop
    \/ ToSql

\* the call runs on: a step that can be taken is taken eventually
SpecFair == Init /\ [][NextSmall]_vars /\ WF_vars(NextSmall)

\* import_data is called again on the same object after a call that returned or
\* raised: the locals of the call are new, the store is as the last call left
\* it, and the dict bound to the default argument `tree={}` of __get_tree is
\* the one the earlier calls filled
ImportDataAgain ==
    /\ pc \in {"done", "failed"}
    /\ UNCHANGED <<other_vars, rankedLineageTable>>
    /\ pc' = "recreate_db"
    /\ error' = "none"
    /\ df' = <<>>
    /\ pc_dict' = <<>>
    /\ stack' = <<>>
    /\ number_of_nodes' = None
    /\ tree_pc_dict' = <<>>
    /\ max_tree_id' = None
    /\ k' = 0
    /\ store_at_call' = nodeTable
    /\ UNCHANGED <<cls, tree, nodeTable, nameTable, request, response>>

RECURSIVE GetTree(_, _, _, _, _, _)
\* what the call __get_tree(tree_entry, pc_dict, level, tree_id, tree) returns
\* from its i-th child on, level being the level after `level += 1`
GetTree(tree_entry, d, level, tree_id, t, i) ==
    LET children == DictGet(d, tree_entry.tax_id)
    IN  IF i > Len(children)
        THEN [tree |-> t, tree_id |-> tree_id]
        ELSE LET new_tree_id == tree_id + 1
                 new_tree_entry ==
                     TreeEntry(new_tree_id, tree_entry.tree_id, children[i], level,
                               IsLeaf(children[i], d))
                 returned == GetTree(new_tree_entry, d, level + 1, new_tree_id,
                                     TreeSet(t, new_tree_entry), 1)
             IN  GetTree(tree_entry, d, level,
                         TreeIdAfterCall(tree_id, returned.tree_id),
                         returned.tree, i + 1)

RECURSIVE SetRightTreeIds(_, _, _, _, _)
\* the loop of __set_right_tree_ids from the i-th item of tree.items() on
SetRightTreeIds(c, t, tpc, max_id, i) ==
    IF i > Len(t) THEN t
    ELSE SetRightTreeIds(c,
             [t EXCEPT ![i].right_tree_id = RightTreeIdOf(c, t, tpc, max_id, t[i])],
             tpc, max_id, i + 1)

\* the dict __get_tree_df of class c builds from the rows when the dict of the
\* default argument is empty, as in a process that has imported nothing yet;
\* for rows with the root row and a second node
GetTreeDf(c, rows) ==
    LET grouped == GroupByParent(rows)
        d == [grouped EXCEPT ![1] = ListRemove(grouped[1], 1)]
        root == TreeEntry(1, None, 1, 1, FALSE)
        t == GetTree(root, d, 0 + 1, 1, TreeSet(<<>>, root), 1).tree
    IN  SetRightTreeIds(c, t, TreeParentChildDict(t),
                        Max(TreeChildParentKeys(t)), 1)

NextReimport ==
    \/ RecreateDb
    \/ ReadCsvSmall
    \/ GetParentChildDict
    \/ GetTreeRoot
    \/ GetTreeChild
    \/ GetTreeReturn
    \/ GetTreeDone
    \/ SetRightTreeIdsStart
    \/ SetRightTreeIdsLoop
    \/ ToSql
    \/ ImportDataAgain

SpecReimport == Init /\ [][NextReimport]_vars

\* ReadCsv on the batches that are valid edge sets
ReadCsvValid ==
    /\ pc = "read_csv"
    /\ \E n \in 1..MaxNodes : df' \in {b \in Batches(n) : ValidEdgeSet(b)}
    /\ pc' = "get_parent_child_dict"
    /\ UNCHANGED <<cls, error, pc_dict, tree, stack, number_of_nodes,
                   tree_pc_dict, max_tree_id, k, nodeTable>>
    /\ UNCHANGED outside_nodes

\* import_data calls of one process, each on a valid edge set
NextReimportValid ==
    \/ RecreateDb
    \/ ReadCsvValid
    \/ GetParentChildDict
    \/ GetTreeRoot
    \/ GetTreeChild
    \/ GetTreeReturn
    \/ GetTreeDone
    \/ SetRightTreeIdsStart
    \/ SetRightTreeIdsLoop
    \/ ToSql
    \/ ImportDataAgain

SpecReimportValid == Init /\ [][NextReimportValid]_vars

----------------------------------------------------------------------------
(* The import of the names: __import_names / import_names *)

ScientificName == "scientific name"

NameRow(tax_id, name_class, name_txt) ==
    [tax_id |-> tax_id, name_class |-> name_class, name_txt |-> name_txt]

\* the rows names.dmp has for a node: its scientific name, with a synonym, a
\* synonym and no scientific name, or two scientific names
NamesOfNode(x, kind) ==
    CASE kind = "scientific" -> <<NameRow(x, ScientificName, "a")>>
      [] kind = "scientific and synonym" ->
             <<NameRow(x, ScientificName, "a"), NameRow(x, "synonym", "b")>>
      [] kind = "synonym" -> <<NameRow(x, "synonym", "b")>>
      [] kind = "two scientific" ->
             <<NameRow(x, ScientificName, "a"), NameRow(x, ScientificName, "b")>>

RECURSIVE NameRows(_, _, _)
\* the rows of names.dmp for the nodes of the rows of nodes.dmp, in that order:
\* those of kind `kind` for node x, one scientific name for every other node
NameRows(rows, x, kind) ==
    IF rows = <<>> THEN <<>>
    ELSE NamesOfNode(Head(rows).tax_id,
                     IF Head(rows).tax_id = x THEN kind ELSE "scientific")
         \o NameRows(Tail(rows), x, kind)

\* names.dmp: every node has one scientific name, but for one node at most
NameBatches(rows) ==
    {NameRows(rows, x, kind) :
        x \in TaxIds(rows),
        kind \in {"scientific", "scientific and synonym", "synonym", "two scientific"}}

\* df.to_sql(name table, if_exists="append"); import_data returns and the API
\* serves the store
ImportNames ==
    /\ pc = "done"
    /\ UNCHANGED <<other_vars, rankedLineageTable>>
    /\ nameTable' \in NameBatches(df)
    /\ pc' = "serving"
    /\ UNCHANGED <<cls, df, error, pc_dict, tree, stack, number_of_nodes,
                   tree_pc_dict, max_tree_id, k, nodeTable, store_at_call,
                   request, response>>

----------------------------------------------------------------------------
(* GET /node/search/siblings/{tax_id} and GET /node/search/descendent/{tax_id} *)

\* limit: Annotated[int, Query(le=100)]
LimitLe == 100

\* largest of the small values of limit a request carries
MaxLimit == 2

\* largest offset a request carries
MaxOffset == 2

\* the values of limit: negative, small, the largest one accepted, one too large
Limits == (-1..MaxLimit) \cup {LimitLe, LimitLe + 1}

Offsets == -1..MaxOffset

\* select(Node.parent_tax_id).where(Node.tax_id == tax_id).limit(1)
\* .scalar_subquery(): NULL when no row has that tax_id
SiblingsSubquery(nodes, tax_id) ==
    LET m == SelectSeq(nodes, LAMBDA a : a.tax_id = tax_id)
    IN  IF m = <<>> THEN None ELSE m[1].parent_tax_id

\* .join(models.Name) on the foreign key Name.tax_id, and the filter
\* Name.name_class == "scientific name"
JoinsName(a, b) == b.tax_id = a.tax_id /\ b.name_class = ScientificName

\* the rows of the siblings query, as pairs of a position in the node table
\* and one in the name table; a comparison with NULL is never true
SiblingsMatches(nodes, names, tax_id) ==
    LET parent == SiblingsSubquery(nodes, tax_id)
    IN  {m \in (DOMAIN nodes) \X (DOMAIN names) :
            /\ parent # None
            /\ nodes[m[1]].parent_tax_id = parent
            /\ JoinsName(nodes[m[1]], names[m[2]])}

\* InRange with the right bound included
InRangeClosed(a, b) ==
    /\ b.right_tree_id # None
    /\ a.tree_id >= b.tree_id
    /\ a.tree_id <= b.right_tree_id

\* and_(a.tree_id >= b.tree_id, a.tree_id < b.right_tree_id), b the row
\* (tree_id, right_tree_id) of the subquery; a comparison with NULL is never true
InRange(a, b) ==
    /\ b.right_tree_id # None
    /\ a.tree_id >= b.tree_id
    /\ a.tree_id < b.right_tree_id

\* the rows of the descendent query
DescendentMatches(nodes, names, tax_id, only_leafs) ==
    LET subquery == SelectSeq(nodes, LAMBDA b : b.tax_id = tax_id)
    IN  {m \in (DOMAIN nodes) \X (DOMAIN names) :
            /\ \E x \in DOMAIN subquery : InRange(nodes[m[1]], subquery[x])
            /\ JoinsName(nodes[m[1]], names[m[2]])
            /\ only_leafs => nodes[m[1]].is_leaf}

\* the columns selected: Node.tax_id, Node.parent_tax_id, Name.name_txt
ResultRow(a, b) ==
    [tax_id |-> a.tax_id, parent_tax_id |-> a.parent_tax_id,
     scientific_name |-> b.name_txt]

RECURSIVE Orderings(_)
\* the query has no ORDER BY: the store returns the rows in any order
Orderings(S) ==
    IF S = {} THEN {<<>>}
    ELSE UNION {{<<m>> \o rest : rest \in Orderings(S \ {m})} : m \in S}

\* .limit(limit).offset(offset) on rows in the order the store returns them, as
\* SQLite applies them: a negative limit is no limit, a negative offset is 0
Page(ordered, limit, offset) ==
    LET first == IF offset < 0 THEN 1 ELSE offset + 1
        last == IF limit < 0 THEN Len(ordered)
                ELSE Min({Len(ordered), first - 1 + limit})
    IN  SubSeq(ordered, first, last)

\* Count from the rows fetched
CountOfPage(matches, page) == Len(page)

\* query.count() / select(func.count()).select_from(query.subquery()): the
\* count of the query without limit and offset
Count(matches, page) == Cardinality(matches)

\* what a search endpoint returns for the rows `matches` of its query: 422 when
\* limit fails its validation, else the dict with the count, limit, offset and
\* the rows fetched; a negative limit or offset passes the validation and is an
\* error of the statement in the stores other than SQLite
Responses(nodes, names, matches, limit, offset) ==
    IF limit > LimitLe THEN {[status |-> 422]}
    ELSE {[status |-> 200,
           count |-> Count(matches, Page(ordered, limit, offset)),
           limit |-> limit,
           offset |-> offset,
           results |-> [i \in DOMAIN Page(ordered, limit, offset) |->
                           ResultRow(nodes[Page(ordered, limit, offset)[i][1]],
                                     names[Page(ordered, limit, offset)[i][2]])]] :
          ordered \in Orderings(matches)}
         \cup (IF limit < 0 \/ offset < 0 THEN {[status |-> 500]} ELSE {})

\* the tax ids a request names: those of the batch and one no row has
RequestTaxIds == 1..(Len(df) + 1)

\* the endpoints are handled one call at a time
search_siblings_nodes ==
    /\ pc = "serving"
    /\ UNCHANGED <<other_vars, rankedLineageTable>>
    /\ request = NoRequest
    /\ \E tax_id \in RequestTaxIds, offset \in Offsets, limit \in Limits :
          /\ request' = [endpoint |-> "siblings", tax_id |-> tax_id,
                         limit |-> limit, offset |-> offset]
          /\ response' \in Responses(nodeTable, nameTable,
                               SiblingsMatches(nodeTable, nameTable, tax_id),
                               limit, offset)
    /\ UNCHANGED <<cls, df, pc, error, pc_dict, tree, stack, number_of_nodes,
                   tree_pc_dict, max_tree_id, k, nodeTable, store_at_call,
                   nameTable>>

search_descendent_nodes ==
    /\ pc = "serving"
    /\ UNCHANGED <<other_vars, rankedLineageTable>>
    /\ request = NoRequest
    /\ \E tax_id \in RequestTaxIds, only_leafs \in BOOLEAN,
          offset \in Offsets, limit \in Limits :
          /\ request' = [endpoint |-> "descendent", tax_id |-> tax_id,
                         only_leafs |-> only_leafs,
                         limit |-> limit, offset |-> offset]
          /\ response' \in Responses(nodeTable, nameTable,
                               DescendentMatches(nodeTable, nameTable, tax_id,
                                                 only_leafs),
                               limit, offset)
    /\ UNCHANGED <<cls, df, pc, error, pc_dict, tree, stack, number_of_nodes,
                   tree_pc_dict, max_tree_id, k, nodeTable, store_at_call,
                   nameTable>>

\* the response has gone to the client: the next call can be handled
ReturnResponse ==
    /\ request # NoRequest
    /\ UNCHANGED <<other_vars, rankedLineageTable>>
    /\ request' = NoRequest
    /\ response' = NoResponse
    /\ UNCHANGED <<cls, df, pc, error, pc_dict, tree, stack, number_of_nodes,
                   tree_pc_dict, max_tree_id, k, nodeTable, store_at_call,
                   nameTable>>

NextQuery ==
    \/ RecreateDb
    \/ ReadCsvSmall
    \/ GetParentChildDict
    \/ GetTreeRoot
    \/ GetTreeChild
    \/ GetTreeReturn
    \/ GetTreeDone
    \/ SetRightTreeIdsStart
    \/ SetRightTreeIdsLoop
    \/ ToSql
    \/ ImportNames
    \/ search_siblings_nodes
    \/ search_descendent_nodes
    \/ ReturnResponse

SpecQuery == Init /\ [][NextQuery]_vars

----------------------------------------------------------------------------
(* Vocabulary of the properties *)

\* __get_tree has returned to __get_tree_df: every tree_id, level and is_leaf
\* of this import is assigned
PassOneDone == number_of_nodes # None

\* __set_right_tree_ids has returned: the encoding is complete
Encoded == pc \in {"to_sql", "done"} \/ (pc = "failed" /\ error = "IntegrityError")

\* the entries of the tree that carry tax id x
EntriesOf(x) == {i \in 1..Len(tree) : tree[i].tax_id = x}

HasEntry(x) == EntriesOf(x) # {}

EntryOf(x) == tree[CHOOSE i \in 1..Len(tree) : tree[i].tax_id = x]

\* b is a descendant of a and not a itself
IsProperDescendant(rows, a, b) == a # b /\ IsDescendantOrSelf(rows, a, b)

\* two different non-root nodes with the same parent
AreSiblings(rows, s1, s2) ==
    /\ s1 # s2 /\ s1 # 1 /\ s2 # 1
    /\ ParentOf(rows, s1) = ParentOf(rows, s2)

\* no other node of the edge set names x as its parent
NamedByNoOther(rows, x) ==
    ~\E r \in Range(rows) : r.parent_tax_id = x /\ r.tax_id # x

\* no entry of the tree has e as its parent entry
IsChildlessEntry(e) ==
    ~\E i \in 1..Len(tree) : tree[i].tree_parent_id = e.tree_id

----------------------------------------------------------------------------
(* C1 *)

\* C1: for a valid edge set encoded by DbImporter, B is A itself or a
\* descendant of A exactly when A.tree_id <= B.tree_id < A.right_tree_id
C1_DescendantIffInInterval ==
    (Encoded /\ cls = "DbImporter" /\ ValidEdgeSet(df)) =>
        \A a, b \in TaxIds(df) :
            /\ HasEntry(a) /\ HasEntry(b)
            /\ IsDescendantOrSelf(df, a, b) <=>
                   (/\ EntryOf(a).tree_id <= EntryOf(b).tree_id
                    /\ EntryOf(b).tree_id < EntryOf(a).right_tree_id)

\* an encoded tree where a non-root node has a descendant and a later node
\* outside its subtree
C1_Witness ==
    /\ Encoded /\ cls = "DbImporter" /\ ValidEdgeSet(df)
    /\ \E a, b, c \in TaxIds(df) :
        /\ a # 1
        /\ IsProperDescendant(df, a, b)
        /\ ~IsDescendantOrSelf(df, a, c)
        /\ EntryOf(c).tree_id > EntryOf(b).tree_id

----------------------------------------------------------------------------
(* C2 *)

\* C2: after pass one on a valid edge set of N nodes every node has exactly one
\* tree_id, the tree_ids are distinct and are exactly 1..N, and the root has 1
C2_TreeIdsAreOneToN ==
    (PassOneDone /\ ValidEdgeSet(df)) =>
        /\ \A x \in TaxIds(df) : Cardinality(EntriesOf(x)) = 1
        /\ \A i, j \in 1..Len(tree) : tree[i].tree_id = tree[j].tree_id => i = j
        /\ TreeKeys(tree) = 1..Len(df)
        /\ EntryOf(1).tree_id = 1

\* pass one has ended on a valid edge set with two siblings, given in a file
\* order that is not the order of the tax ids
C2_Witness ==
    /\ PassOneDone /\ ValidEdgeSet(df)
    /\ Len(df) >= 3
    /\ \E s1, s2 \in TaxIds(df) : AreSiblings(df, s1, s2)
    /\ \E i \in 1..(Len(df) - 1) : df[i].tax_id > df[i + 1].tax_id

----------------------------------------------------------------------------
(* C3 *)

\* C3: the tree_ids are a preorder numbering in input order: a node comes
\* before each of its descendants, and the whole subtree of a sibling that is
\* earlier in the input comes before the later sibling
C3_PreorderInInputOrder ==
    (PassOneDone /\ ValidEdgeSet(df)) =>
        /\ \A a, b \in TaxIds(df) :
               IsProperDescendant(df, a, b) =>
                   HasEntry(a) /\ HasEntry(b) /\ EntryOf(a).tree_id < EntryOf(b).tree_id
        /\ \A s1, s2 \in TaxIds(df) :
               (AreSiblings(df, s1, s2) /\ RowIndex(df, s1) < RowIndex(df, s2)) =>
                   \A d \in TaxIds(df) :
                       IsDescendantOrSelf(df, s1, d) =>
                           /\ HasEntry(d) /\ HasEntry(s2)
                           /\ EntryOf(d).tree_id < EntryOf(s2).tree_id

\* the earlier sibling has the larger tax id and a child of its own
C3_Witness ==
    /\ PassOneDone /\ ValidEdgeSet(df)
    /\ \E s1, s2, d \in TaxIds(df) :
        /\ AreSiblings(df, s1, s2)
        /\ RowIndex(df, s1) < RowIndex(df, s2)
        /\ s1 > s2
        /\ IsProperDescendant(df, s1, d)

----------------------------------------------------------------------------
(* C4 *)

\* C4: the root has level 1 and every other node has its parent's level plus 1
C4_LevelIsParentLevelPlusOne ==
    (PassOneDone /\ ValidEdgeSet(df)) =>
        /\ EntryOf(1).level = 1
        /\ \A x \in TaxIds(df) \ {1} :
               EntryOf(x).level = EntryOf(ParentOf(df, x)).level + 1

----------------------------------------------------------------------------
(* C5 *)

\* C5: for every valid edge set of N >= 1 nodes the encoding of DbImporter
\* completes and the root's right_tree_id is N + 1
C5_EncodingCompletesWithRootBound ==
    (cls = "DbImporter" /\ ValidEdgeSet(df)) =>
        /\ pc # "failed"
        /\ Encoded => EntryOf(1).right_tree_id = Len(df) + 1

----------------------------------------------------------------------------
(* C6 *)

----------------------------------------------------------------------------
(* C7 *)

----------------------------------------------------------------------------
(* C8 *)

\* C8: in an encoded tree an entry, the root included, has is_leaf true exactly
\* when no other node of the edge set names its tax id as parent
C8_IsLeafIffNoChild ==
    Encoded =>
        \A i \in 1..Len(tree) :
            tree[i].is_leaf <=> NamedByNoOther(df, tree[i].tax_id)

\* an encoded valid tree with a leaf and a non-root node that is no leaf
C8_Witness ==
    /\ Encoded /\ ValidEdgeSet(df)
    /\ \E i, j \in 1..Len(tree) :
        /\ tree[i].is_leaf
        /\ tree[j].tree_id # 1 /\ ~tree[j].is_leaf

----------------------------------------------------------------------------
(* C9 *)

\* C9: a batch with a dangling edge is never imported: the import does not
\* complete, no row of it is stored, and it stops nowhere but in a raised error
C9_DanglingEdgeRejected ==
    HasDanglingEdge(df) =>
        /\ pc # "done"
        /\ nodeTable = <<>>
        /\ IF pc = "failed" THEN error # "none" ELSE ENABLED Next

\* the encoder ran to its end without the node of the dangling edge and the
\* write of the rows was refused
C9_Witness ==
    /\ HasDanglingEdge(df) /\ HasRoot(df)
    /\ pc = "failed" /\ error = "IntegrityError"
    /\ \E x \in TaxIds(df) : ~HasEntry(x)

----------------------------------------------------------------------------
(* C10 *)

\* C10: a batch with a cycle other than the root's self-loop is rejected
\* before the traversal starts and is never imported
C10_CycleRejectedBeforeTraversal ==
    (cls = "DbImporter" /\ HasOtherCycle(df)) =>
        /\ pc \notin {"get_tree", "set_right_tree_ids", "set_right_tree_ids_loop",
                      "to_sql", "done"}
        /\ tree = <<>>

----------------------------------------------------------------------------
(* Import on a store that holds rows, and imports one after another *)

\* C11: when import_data fails on an edge set without the self-referencing root
\* 1, the store is as it was when the call began: every row is still there.
C11_FailedImportLeavesStore ==
    (pc = "failed" /\ ~HasRoot(df)) => nodeTable = store_at_call

\* C12: whatever imports the process ran before, the tree entries of the last
\* edge set are those a fresh process builds from that edge set alone: no entry
\* of an earlier import is left and the root's right_tree_id is N + 1. Stated
\* for the edge sets of two nodes and more, those a fresh process encodes.
C12_EncoderIsReentrant ==
    (Encoded /\ Len(df) > 1 /\ ValidEdgeSet(df)) =>
        /\ tree = GetTreeDf(cls, df)
        /\ \A i \in 1..Len(tree) : tree[i].tax_id \in TaxIds(df)
        /\ TreeGet(tree, 1).right_tree_id = Len(df) + 1

----------------------------------------------------------------------------
(* The search endpoints on the stored tree *)

\* the endpoint has handled the request and returned its dict
Answered(endpoint) == request.endpoint = endpoint /\ response.status = 200

\* the request asks for the first 100 rows: the page is the whole match set
FullPage == request.limit = LimitLe /\ request.offset = 0

\* every stored node has exactly one row of name class "scientific name"
OneScientificNameEach ==
    \A a \in Range(nodeTable) :
        Cardinality({j \in DOMAIN nameTable : JoinsName(a, nameTable[j])}) = 1

\* the tax_id column of the rows returned
ResultTaxIds == [i \in DOMAIN response.results |-> response.results[i].tax_id]

\* x and the nodes below x in the edge set imported
Descendants(x) == {y \in TaxIds(df) : IsDescendantOrSelf(df, x, y)}

\* the stored row of tax id x
StoredRow(x) == CHOOSE a \in Range(nodeTable) : a.tax_id = x

\* the rows of the query of the request, without limit and offset
MatchesOf(req) ==
    IF req.endpoint = "siblings"
    THEN SiblingsMatches(nodeTable, nameTable, req.tax_id)
    ELSE DescendentMatches(nodeTable, nameTable, req.tax_id, req.only_leafs)

RECURSIVE InStoreOrder(_)
\* the rows in the order of the node table, then of the name table
InStoreOrder(S) ==
    IF S = {} THEN <<>>
    ELSE LET least == CHOOSE m \in S : \A o \in S :
                          m[1] < o[1] \/ (m[1] = o[1] /\ m[2] <= o[2])
         IN  <<least>> \o InStoreOrder(S \ {least})

\* C13: after an import by DbImporter with one scientific name per node, the
\* descendent query of a stored node X with only_leafs false matches exactly
\* the nodes reachable from X by child edges, X included, each once.
C13_DescendentQueryMatchesSubtree ==
    (/\ Answered("descendent")
     /\ cls = "DbImporter"
     /\ ~request.only_leafs
     /\ request.tax_id \in TaxIds(df)
     /\ OneScientificNameEach) =>
        /\ response.count = Cardinality(Descendants(request.tax_id))
        /\ FullPage =>
               /\ Range(ResultTaxIds) = Descendants(request.tax_id)
               /\ Len(response.results) = response.count

\* the whole subtree of a node that is not the root and has a child was asked
\* for and returned
C13_Witness ==
    /\ Answered("descendent")
    /\ cls = "DbImporter"
    /\ ~request.only_leafs
    /\ request.tax_id \in TaxIds(df) \ {1}
    /\ OneScientificNameEach
    /\ FullPage
    /\ response.count = 2

\* C14: after an import by DbManager, the descendent query of a stored node X
\* with only_leafs true matches exactly the leaves of the subtree of X, each
\* once; when X is a leaf itself, exactly X.
C14_LeafQueryMatchesLeavesOfSubtree ==
    (/\ Answered("descendent")
     /\ cls = "DbManager"
     /\ request.only_leafs
     /\ request.tax_id \in TaxIds(df)
     /\ OneScientificNameEach) =>
        LET leaves == {y \in Descendants(request.tax_id) : StoredRow(y).is_leaf}
        IN  /\ response.count = Cardinality(leaves)
            /\ FullPage => Range(ResultTaxIds) = leaves
            /\ StoredRow(request.tax_id).is_leaf => leaves = {request.tax_id}

\* C15: a request that names a tax_id no stored node has is not answered like
\* one whose node exists and has no match (count 0, no rows).
C15_UnknownTaxIdIsNotFound ==
    (response.status # None /\ request.tax_id \notin TaxIds(nodeTable)) =>
        ~(response.status = 200 /\ response.count = 0 /\ response.results = <<>>)

\* C16: the sibling query of a stored node X whose parent is P matches exactly
\* the stored nodes whose parent is P, each once, X among them, whatever names
\* the nodes have.
C16_SiblingQueryMatchesSameParent ==
    (Answered("siblings") /\ request.tax_id \in TaxIds(nodeTable)) =>
        LET P == StoredRow(request.tax_id).parent_tax_id
            siblings == {a.tax_id : a \in {b \in Range(nodeTable) : b.parent_tax_id = P}}
        IN  /\ response.count = Cardinality(siblings)
            /\ FullPage =>
                   /\ Range(ResultTaxIds) = siblings
                   /\ Len(response.results) = Cardinality(siblings)
                   /\ request.tax_id \in Range(ResultTaxIds)

\* C17: the count of a response is the number of rows of the query of the
\* request without limit and offset, whatever limit and offset the request has.
C17_CountIsOfUnpaginatedMatchSet ==
    response.status = 200 =>
        response.count = Cardinality(MatchesOf(request))

\* a page that is shorter than the match set was returned, from an offset
C17_Witness ==
    /\ response.status = 200
    /\ request.offset > 0
    /\ response.results # <<>>
    /\ Len(response.results) < Cardinality(MatchesOf(request))

\* C18: a request with limit L and offset O gets min(L, max(0, count - O)) rows,
\* the rows O+1..O+L of the match set in one order that is the same for every
\* request (here: the order of the store), and its limit and offset back.
C18_PageIsSliceOfFixedOrder ==
    (response.status = 200 /\ request.limit >= 0 /\ request.offset >= 0) =>
        LET ordered == InStoreOrder(MatchesOf(request))
            slice == SubSeq(ordered, request.offset + 1,
                            Min({Len(ordered), request.offset + request.limit}))
        IN  /\ Len(response.results) =
                   Min({request.limit, Max({0, response.count - request.offset})})
            /\ response.results =
                   [i \in DOMAIN slice |->
                       ResultRow(nodeTable[slice[i][1]], nameTable[slice[i][2]])]
            /\ response.limit = request.limit
            /\ response.offset = request.offset

\* C19: the limit of every request an endpoint accepts is between 0 and 100, so
\* no response has more than 100 rows.
C19_LimitIsCapped ==
    response.status = 200 =>
        /\ request.limit >= 0
        /\ request.limit <= LimitLe
        /\ Len(response.results) <= LimitLe

----------------------------------------------------------------------------
(* The call stack of the traversal *)

\* C20: the traversal keeps its work on a stack of its own: however deep the
\* tree is, no more than one call of __get_tree is active.
C20_CallStackDoesNotGrow == Len(stack) <= 1

----------------------------------------------------------------------------
(* Termination of the traversal *)

\* x is reached from the root by child edges: the root is on x's parent chain
ReachableFromRoot(rows, x) == 1 \in Ancestors(rows, x)

----------------------------------------------------------------------------
(* The order of the right-bound pass *)

\* the position of the entry of key tree_id in tree.items()
ItemIndex(tree_id) == CHOOSE i \in 1..Len(tree) : tree[i].tree_id = tree_id

\* C23: whenever the right-bound pass is about to give an entry without a later
\* sibling the right_tree_id of its parent entry, the pass has been at the parent
\* entry before and the parent's right_tree_id is set, on a first import and on
\* every later import of the process.
C23_ParentResolvedBeforeChild ==
    (pc = "set_right_tree_ids_loop" /\ k <= Len(tree)) =>
        LET e == tree[k]
            later == {x \in Range(DictGet(tree_pc_dict, e.tree_parent_id)) :
                         x > e.tree_id}
        IN  (e.tree_id # 1 /\ UpdatesEntry(cls, e) /\ later = {}) =>
                /\ ItemIndex(e.tree_parent_id) < k
                /\ TreeGet(tree, e.tree_parent_id).right_tree_id # None

----------------------------------------------------------------------------
(* rdf/turtle.py: the parents of a taxon *)

RECURSIVE recursive_get_parents(_, _, _)
\* adds parent_id to tax_ids, then the parent chain of parent_id up to the row
\* that is its own parent, and returns tax_ids; the index tax_id is unique, so
\* df_tree.loc[parent_id, "parent_tax_id"] is one np.integer
recursive_get_parents(rows, x, tax_ids) ==
    LET current_id == ParentOf(rows, x)
    IN  IF x # current_id
        THEN recursive_get_parents(rows, current_id, tax_ids \cup {x})
        ELSE tax_ids \cup {x}

\* create_ttls reads nodes.dmp into df_tree; the interpreter created the set of
\* the default of tax_ids when it loaded the module
ReadNodesDmp ==
    /\ df_tree = <<>>
    /\ \E n \in 1..MaxNodes : df_tree' \in {b \in Batches(n) : ValidEdgeSet(b)}
    /\ UNCHANGED <<default_tax_ids, parent_id, returned_tax_ids>>
    /\ UNCHANGED <<import_vars, api_vars, file_vars>>

\* recursive_get_parents(df_tree=df_tree, parent_id=x): tax_ids is the set of the
\* default, which the call fills and returns
CallRecursiveGetParents ==
    /\ df_tree # <<>>
    /\ \E x \in TaxIds(df_tree) :
          /\ parent_id' = x
          /\ default_tax_ids' = recursive_get_parents(df_tree, x, default_tax_ids)
          /\ returned_tax_ids' = default_tax_ids'
    /\ UNCHANGED df_tree
    /\ UNCHANGED <<import_vars, api_vars, file_vars>>

NextTurtle ==
    \/ ReadNodesDmp
    \/ CallRecursiveGetParents

SpecTurtle == Init /\ [][NextTurtle]_vars

\* C26: a call recursive_get_parents(df_tree, x) that passes no tax_ids returns
\* x and the ancestors of x up to the root and nothing else, whatever calls came
\* before it.
C26_ReturnsOnlyOwnAncestors ==
    parent_id # None => returned_tax_ids = Ancestors(df_tree, parent_id)

----------------------------------------------------------------------------
(* api/main.py and cli.py: the credentials and the management endpoints *)

\* the user names and passwords of the options, the environment and the requests
Words == {"admin", "secret"}

\* os.environ.get(key, default)
EnvironGet(env, key, default) == IF env[key] = Unset THEN default ELSE env[key]

\* the process starts, with API_USERNAME and API_PASSWORD set or not: as the
\* command run-api of cli.py with its options --user and --password, or as
\* uvicorn on biokb_taxtree.api.main:app
StartProcess ==
    /\ api_pc = "not_started"
    /\ \E name \in Words \cup {Unset}, pwd \in Words \cup {Unset} :
          environ' = [environ EXCEPT !.API_USERNAME = name, !.API_PASSWORD = pwd]
    /\ \/ \E user \in Words, password \in Words :
             command' = [name |-> "run-api", user |-> user, password |-> password]
       \/ command' = [name |-> "uvicorn"]
    /\ api_pc' = "import_main"
    /\ UNCHANGED <<USERNAME, PASSWORD, ttls_zip_exists, api_request, api_response>>
    /\ UNCHANGED <<import_vars, turtle_vars, file_vars>>

\* the body of the module api/main.py runs, once, when the module is first
\* imported: by line 7 of cli.py, or by uvicorn
ImportApiMain ==
    /\ api_pc = "import_main"
    /\ USERNAME' = EnvironGet(environ, "API_USERNAME", "admin")
    /\ PASSWORD' = EnvironGet(environ, "API_PASSWORD", "admin")
    /\ api_pc' = IF command.name = "run-api" THEN "import_cli" ELSE "serving"
    /\ UNCHANGED <<environ, command, ttls_zip_exists, api_request, api_response>>
    /\ UNCHANGED <<import_vars, turtle_vars, file_vars>>

\* the names api/main.py defines that cli.py could import to run the server
NamesOfApiMain == {"run_api", "app"}

\* cli.py: from biokb_taxtree.api.main import run_server
CliImportRunServer ==
    /\ api_pc = "import_cli"
    /\ api_pc' = IF "run_server" \in NamesOfApiMain THEN "run-api" ELSE "ImportError"
    /\ UNCHANGED <<environ, command, USERNAME, PASSWORD, ttls_zip_exists,
                   api_request, api_response>>
    /\ UNCHANGED <<import_vars, turtle_vars, file_vars>>

\* verify_credentials: both compare_digest calls are true
verify_credentials(username, password) ==
    username = USERNAME /\ password = PASSWORD

Unauthorized == [status |-> 401, detail |-> "Invalid credentials"]

\* what a call of a collaborator outside this package does: it returns or raises
Outcomes == {"returns", "raises"}

\* GET /export_ttls/: creates the zipped TTL files when they are missing or
\* force_create is set
get_report ==
    /\ api_pc = "serving"
    /\ \E username \in Words, password \in Words, force_create \in BOOLEAN,
          create_ttls \in Outcomes :
          /\ api_request' = [endpoint |-> "export_ttls", username |-> username,
                             password |-> password, force_create |-> force_create]
          /\ IF ~verify_credentials(username, password)
             THEN /\ api_response' = Unauthorized
                  /\ UNCHANGED ttls_zip_exists
             ELSE IF (~ttls_zip_exists \/ force_create) /\ create_ttls = "raises"
             THEN /\ api_response' =
                        [status |-> 500,
                         detail |-> "Error generating TTL files. Data already imported?"]
                  /\ UNCHANGED ttls_zip_exists
             ELSE /\ api_response' = [status |-> 200, detail |-> "taxtree_ttls.zip"]
                  /\ ttls_zip_exists' = TRUE
    /\ UNCHANGED <<environ, command, USERNAME, PASSWORD, api_pc>>
    /\ UNCHANGED <<import_vars, turtle_vars, file_vars>>

ZippedTtlsNotFound ==
    [status |-> 405,
     detail |-> "Zipped TTL files not found. Please generate them first using /export_ttls/ endpoint."]

Neo4jImportError == [status |-> 500, detail |-> "Error importing data into Neo4j"]

\* the try block of import_neo4j: the HTTPException of status 405 is raised
\* inside it, and except Exception catches it like any exception of import_ttls
ImportNeo4jResponse(zip_exists, import_ttls) ==
    LET raised == IF ~zip_exists THEN {ZippedTtlsNotFound}
                  ELSE IF import_ttls = "raises" THEN {Neo4jImportError}
                  ELSE {}
    IN  IF raised # {} THEN Neo4jImportError
        ELSE [status |-> 200, detail |-> "Neo4j import completed successfully."]

\* GET /import_neo4j/
import_neo4j ==
    /\ api_pc = "serving"
    /\ \E username \in Words, password \in Words, import_ttls \in Outcomes :
          /\ api_request' = [endpoint |-> "import_neo4j", username |-> username,
                             password |-> password, import_ttls |-> import_ttls]
          /\ api_response' =
                IF ~verify_credentials(username, password) THEN Unauthorized
                ELSE ImportNeo4jResponse(ttls_zip_exists, import_ttls)
    /\ UNCHANGED <<environ, command, USERNAME, PASSWORD, api_pc, ttls_zip_exists>>
    /\ UNCHANGED <<import_vars, turtle_vars, file_vars>>

NextApi ==
    \/ StartProcess
    \/ ImportApiMain
    \/ CliImportRunServer
    \/ get_report
    \/ import_neo4j

SpecApi == Init /\ [][NextApi]_vars

\* C24: GET /import_neo4j/ with accepted credentials answers 405 and the message
\* of the missing file whenever the zipped TTL files do not exist, and answers
\* 500 only when import_ttls raised.
C24_MissingZipIs405 ==
    (api_request.endpoint = "import_neo4j" /\ api_response.status # 401) =>
        /\ ~ttls_zip_exists => api_response = ZippedTtlsNotFound
        /\ api_response.status = 500 =>
              (ttls_zip_exists /\ api_request.import_ttls = "raises")

\* the server runs and verify_credentials lets the pair pass
Accepts(username, password) ==
    api_pc = "serving" /\ verify_credentials(username, password)

\* C25: once the command run-api --user U --password P has started the
\* process, the credential check accepts the pair (U, P) and rejects every other
\* pair.
C25_CliCredentialsAreChecked ==
    (command.name = "run-api" /\ api_pc \notin {"import_main", "import_cli"}) =>
        \A username \in Words, password \in Words :
            Accepts(username, password) <=>
                (username = command.user /\ password = command.password)

----------------------------------------------------------------------------
(* DbImporter.import_data and the archive it reads *)

\* the archives a path can hold: the one DOWNLOAD_URL serves, the one of
\* tests/dummy_data, and one whose nodes.dmp has a dangling edge
Archives == {"ncbi", "dummy", "broken"}

\* nodes.dmp of the archive
NodesOf(archive) ==
    CASE archive = "ncbi" -> Rows(<<1, 2, 3>>, <<1, 1, 1>>)
      [] archive = "dummy" -> Rows(<<1, 2, 3>>, <<1, 1, 2>>)
      [] archive = "broken" -> Rows(<<1, 2>>, <<1, 3>>)

\* names.dmp of the archive: one scientific name for every node
NamesOf(archive) ==
    [i \in DOMAIN NodesOf(archive) |->
        NameRow(NodesOf(archive)[i].tax_id, ScientificName, archive)]

\* rankedlineage.dmp of the archive: one row for every node
RankedLineageOf(archive) ==
    [i \in DOMAIN NodesOf(archive) |->
        [tax_id |-> NodesOf(archive)[i].tax_id, tax_name |-> archive]]

\* os.path.exists(path)
Exists(path) == files[path] # NoFile

\* no call is running
Idle == {"idle", "returned", "failed"}

\* a process that has called nothing yet; any of the paths holds an archive or
\* no file
InitImportData ==
    /\ cls \in {"DbImporter", "DbManager"}
    /\ df = <<>>
    /\ pc = "idle"
    /\ error = "none"
    /\ pc_dict = <<>>
    /\ tree = <<>>
    /\ stack = <<>>
    /\ number_of_nodes = None
    /\ tree_pc_dict = <<>>
    /\ max_tree_id = None
    /\ k = 0
    /\ nodeTable = <<>>
    /\ store_at_call = <<>>
    /\ nameTable = <<>>
    /\ request = NoRequest
    /\ response = NoResponse
    /\ df_tree = <<>>
    /\ default_tax_ids = {}
    /\ parent_id = None
    /\ returned_tax_ids = {}
    /\ environ = [API_USERNAME |-> Unset, API_PASSWORD |-> Unset]
    /\ command = NoCommand
    /\ USERNAME = Unset
    /\ PASSWORD = Unset
    /\ api_pc = "not_started"
    /\ ttls_zip_exists = FALSE
    /\ api_request = NoRequest
    /\ api_response = NoResponse
    /\ rankedLineageTable = <<>>
    /\ files \in [Paths -> Archives \cup {NoFile}]
    /\ path_zip_file = PATH_TO_ZIP_FILE
    /\ call = NoCall
    /\ unzipped = NoFile
    /\ path_data_folder = Unset

\* PathAfterSet with the assignment before the look for the file
PathAfterSetUnchecked(path, path_zip_file_arg, exists) == path_zip_file_arg

\* self._path_zip_file after _set_path_zip_file(path_zip_file_arg): the
\* assignment is behind the raise
PathAfterSet(path, path_zip_file_arg, exists) ==
    IF exists THEN path_zip_file_arg ELSE path

\* DbImporter._set_path_zip_file(p)
SetPathZipFile ==
    /\ cls = "DbImporter"
    /\ pc \in Idle
    /\ \E p \in Paths :
          /\ call' = [method |-> "_set_path_zip_file", path_zip_file |-> p,
                      path_before |-> path_zip_file]
          /\ path_zip_file' = PathAfterSet(path_zip_file, p, Exists(p))
          /\ pc' = IF Exists(p) THEN "returned" ELSE "failed"
          /\ error' = IF Exists(p) THEN "none" ELSE "FileNotFoundError"
    /\ UNCHANGED <<cls, df, pc_dict, tree, stack, number_of_nodes, tree_pc_dict,
                   max_tree_id, k, nodeTable, store_at_call, nameTable, request,
                   response, rankedLineageTable, files, unzipped,
                   path_data_folder>>
    /\ UNCHANGED <<turtle_vars, api_vars>>

\* di._path_zip_file = p, as the fixture of tests/test_api.py does
AssignPathZipFile ==
    /\ cls = "DbImporter"
    /\ pc \in Idle
    /\ \E p \in Paths :
          /\ call' = [method |-> "_path_zip_file =", path_zip_file |-> p]
          /\ path_zip_file' = p
    /\ pc' = "returned"
    /\ error' = "none"
    /\ UNCHANGED <<cls, df, pc_dict, tree, stack, number_of_nodes, tree_pc_dict,
                   max_tree_id, k, nodeTable, store_at_call, nameTable, request,
                   response, rankedLineageTable, files, unzipped,
                   path_data_folder>>
    /\ UNCHANGED <<turtle_vars, api_vars>>

\* DbImporter.import_data(force_download, keep_files) is called: the locals of
\* the call are new, the dict of the default argument of __get_tree is the one
\* the earlier calls filled; the download is the first step when it is forced
\* or no file is at self._path_zip_file
CallImportData ==
    /\ cls = "DbImporter"
    /\ pc \in Idle
    /\ \E force_download \in BOOLEAN, keep_files \in BOOLEAN :
          /\ call' = [method |-> "import_data", force_download |-> force_download,
                      keep_files |-> keep_files, files |-> files]
          /\ pc' = IF force_download \/ ~Exists(path_zip_file)
                   THEN "urlretrieve" ELSE "recreate_db"
    /\ error' = "none"
    /\ df' = <<>>
    /\ pc_dict' = <<>>
    /\ stack' = <<>>
    /\ number_of_nodes' = None
    /\ tree_pc_dict' = <<>>
    /\ max_tree_id' = None
    /\ k' = 0
    /\ store_at_call' = nodeTable
    /\ UNCHANGED <<cls, tree, nodeTable, nameTable, request, response,
                   rankedLineageTable, files, path_zip_file, unzipped,
                   path_data_folder>>
    /\ UNCHANGED <<turtle_vars, api_vars>>

\* urllib.request.urlretrieve(DOWNLOAD_URL, self._path_zip_file): the file of
\* the URL is at the path afterwards, or the call raises
Urlretrieve ==
    /\ cls = "DbImporter"
    /\ pc = "urlretrieve"
    /\ \E outcome \in Outcomes :
          IF outcome = "returns"
          THEN /\ files' = [files EXCEPT ![path_zip_file] = "ncbi"]
               /\ pc' = "recreate_db"
               /\ error' = error
          ELSE /\ files' = files
               /\ pc' = "failed"
               /\ error' = "URLError"
    /\ UNCHANGED <<cls, df, pc_dict, tree, stack, number_of_nodes, tree_pc_dict,
                   max_tree_id, k, nodeTable, store_at_call, nameTable, request,
                   response, rankedLineageTable, path_zip_file, call, unzipped,
                   path_data_folder>>
    /\ UNCHANGED <<turtle_vars, api_vars>>

\* __import_nodes: zipfile.ZipFile(PATH_TO_ZIP_FILE) and pd.read_csv of its
\* nodes.dmp
ReadCsvZip ==
    /\ cls = "DbImporter"
    /\ pc = "read_csv"
    /\ IF Exists(PATH_TO_ZIP_FILE)
       THEN /\ df' = NodesOf(files[PATH_TO_ZIP_FILE])
            /\ pc' = "get_parent_child_dict"
            /\ error' = error
       ELSE /\ df' = df
            /\ pc' = "failed"
            /\ error' = "FileNotFoundError"
    /\ UNCHANGED <<cls, pc_dict, tree, stack, number_of_nodes,
                   tree_pc_dict, max_tree_id, k, nodeTable>>
    /\ UNCHANGED outside_nodes

\* __import_ranked_lineage: rankedlineage.dmp of zipfile.ZipFile(PATH_TO_ZIP_FILE)
\* is appended to the ranked lineage table
ImportRankedLineage ==
    /\ cls = "DbImporter"
    /\ pc = "done"
    /\ call.method = "import_data"
    /\ rankedLineageTable' =
          rankedLineageTable \o RankedLineageOf(files[PATH_TO_ZIP_FILE])
    /\ pc' = "import_names"
    /\ UNCHANGED <<cls, df, error, pc_dict, tree, stack, number_of_nodes,
                   tree_pc_dict, max_tree_id, k, nodeTable, store_at_call,
                   nameTable, request, response>>
    /\ UNCHANGED other_vars

\* __import_names: names.dmp of zipfile.ZipFile(PATH_TO_ZIP_FILE) is appended to
\* the name table
ImportNamesZip ==
    /\ cls = "DbImporter"
    /\ pc = "import_names"
    /\ nameTable' = nameTable \o NamesOf(files[PATH_TO_ZIP_FILE])
    /\ pc' = "remove_zip"
    /\ UNCHANGED <<cls, df, error, pc_dict, tree, stack, number_of_nodes,
                   tree_pc_dict, max_tree_id, k, nodeTable, store_at_call,
                   request, response, rankedLineageTable>>
    /\ UNCHANGED other_vars

\* RemovesZip without the look at keep_files
RemovesZipAlways(keep_files, exists) == exists

\* if not keep_files and os.path.exists(self._path_zip_file)
RemovesZip(keep_files, exists) == ~keep_files /\ exists

\* the end of import_data: os.remove(self._path_zip_file), and the call returns
RemoveZip ==
    /\ cls = "DbImporter"
    /\ pc = "remove_zip"
    /\ files' = IF RemovesZip(call.keep_files, Exists(path_zip_file))
                THEN [files EXCEPT ![path_zip_file] = NoFile]
                ELSE files
    /\ pc' = "returned"
    /\ UNCHANGED <<cls, df, error, pc_dict, tree, stack, number_of_nodes,
                   tree_pc_dict, max_tree_id, k, nodeTable, store_at_call,
                   nameTable, request, response, rankedLineageTable,
                   path_zip_file, call, unzipped, path_data_folder>>
    /\ UNCHANGED <<turtle_vars, api_vars>>

----------------------------------------------------------------------------
(* DbManager.import_data and the public methods of DbManager *)

\* constants: the folder download_and_unzip extracts the archive to
DEFAULT_PATH_UNZIPPED_DATA_FOLDER == "unzipped"

\* the rows a caller lets the public methods append to a table that holds rows
MaxAppendedRows == 2

\* the property all_tables_have_data: the counts of (Name, Node) are all non-zero
all_tables_have_data == nameTable # <<>> /\ nodeTable # <<>>

\* the tables of models.py that hold no row
EmptyTables ==
    {t \in {"node", "name", "ranked_lineage"} :
        \/ t = "node" /\ nodeTable = <<>>
        \/ t = "name" /\ nameTable = <<>>
        \/ t = "ranked_lineage" /\ rankedLineageTable = <<>>}

\* DbManager.import_data(only_if_db_empty) is called: it returns at once when
\* only_if_db_empty and all_tables_have_data, else download_and_unzip is its
\* first step when no path_data_folder is set
ManagerImportData ==
    /\ cls = "DbManager"
    /\ pc \in Idle
    /\ \E only_if_db_empty \in BOOLEAN :
          LET returns_at_once == only_if_db_empty /\ all_tables_have_data
          IN  /\ call' = [method |-> "import_data",
                          only_if_db_empty |-> only_if_db_empty,
                          empty_tables |-> EmptyTables,
                          imports |-> ~returns_at_once]
              /\ pc' = IF returns_at_once THEN "returned"
                       ELSE IF path_data_folder = Unset THEN "download_and_unzip"
                       ELSE "recreate_db"
    /\ error' = "none"
    /\ df' = <<>>
    /\ pc_dict' = <<>>
    /\ stack' = <<>>
    /\ number_of_nodes' = None
    /\ tree_pc_dict' = <<>>
    /\ max_tree_id' = None
    /\ k' = 0
    /\ store_at_call' = nodeTable
    /\ UNCHANGED <<cls, tree, nodeTable, nameTable, request, response,
                   rankedLineageTable, files, path_zip_file, unzipped,
                   path_data_folder>>
    /\ UNCHANGED <<turtle_vars, api_vars>>

\* the public methods a caller runs one by one, and the step each begins with
EntryPc ==
    [recreate_db |-> "recreate_db", import_nodes |-> "read_csv",
     import_ranked_lineage |-> "import_ranked_lineage",
     import_names |-> "import_names", download_and_unzip |-> "download_and_unzip"]

\* a caller calls recreate_db(), import_nodes(), import_ranked_lineage(),
\* import_names() or tools.download_and_unzip()
ManagerCall ==
    /\ cls = "DbManager"
    /\ pc \in Idle
    /\ \E method \in DOMAIN EntryPc :
          /\ method = "import_names" => Len(nameTable) < MaxAppendedRows
          /\ method = "import_ranked_lineage" =>
                Len(rankedLineageTable) < MaxAppendedRows
          /\ call' = [method |-> method]
          /\ pc' = EntryPc[method]
    /\ error' = "none"
    /\ df' = <<>>
    /\ pc_dict' = <<>>
    /\ stack' = <<>>
    /\ number_of_nodes' = None
    /\ tree_pc_dict' = <<>>
    /\ max_tree_id' = None
    /\ k' = 0
    /\ store_at_call' = nodeTable
    /\ UNCHANGED <<cls, tree, nodeTable, nameTable, request, response,
                   rankedLineageTable, files, path_zip_file, unzipped,
                   path_data_folder>>
    /\ UNCHANGED <<turtle_vars, api_vars>>

\* the step that follows `step` in import_data; a public method returns
After(step) == IF call.method = "import_data" THEN step ELSE "returned"

\* tools.download_and_unzip: the archive is downloaded to PATH_TO_ZIP_FILE when
\* no file is there, and extracted to the folder, which import_data keeps as
\* its path_data_folder
DownloadAndUnzip ==
    /\ cls = "DbManager"
    /\ pc = "download_and_unzip"
    /\ \E outcome \in Outcomes :
          IF ~Exists(PATH_TO_ZIP_FILE) /\ outcome = "raises"
          THEN /\ pc' = "failed"
               /\ error' = "URLError"
               /\ UNCHANGED <<files, unzipped, path_data_folder>>
          ELSE /\ files' = IF Exists(PATH_TO_ZIP_FILE) THEN files
                           ELSE [files EXCEPT ![PATH_TO_ZIP_FILE] = "ncbi"]
               /\ unzipped' = files'[PATH_TO_ZIP_FILE]
               /\ path_data_folder' =
                     IF call.method = "import_data"
                     THEN DEFAULT_PATH_UNZIPPED_DATA_FOLDER ELSE path_data_folder
               /\ pc' = After("recreate_db")
               /\ error' = error
    /\ UNCHANGED <<cls, df, pc_dict, tree, stack, number_of_nodes, tree_pc_dict,
                   max_tree_id, k, nodeTable, store_at_call, nameTable, request,
                   response, rankedLineageTable, path_zip_file, call>>
    /\ UNCHANGED <<turtle_vars, api_vars>>

\* import_nodes: pd.read_csv of nodes.dmp of the folder
ManagerReadCsv ==
    /\ cls = "DbManager"
    /\ pc = "read_csv"
    /\ call.method \in {"import_data", "import_nodes"}
    /\ IF unzipped # NoFile
       THEN /\ df' = NodesOf(unzipped)
            /\ pc' = "get_parent_child_dict"
            /\ error' = error
       ELSE /\ df' = df
            /\ pc' = "failed"
            /\ error' = "FileNotFoundError"
    /\ UNCHANGED <<cls, pc_dict, tree, stack, number_of_nodes,
                   tree_pc_dict, max_tree_id, k, nodeTable>>
    /\ UNCHANGED outside_nodes

\* recreate_db() and import_nodes() called by themselves return
ReturnFromMethod ==
    /\ cls = "DbManager"
    /\ \/ pc = "read_csv" /\ call.method = "recreate_db"
       \/ pc = "done" /\ call.method = "import_nodes"
    /\ pc' = "returned"
    /\ UNCHANGED <<cls, df, error, pc_dict, tree, stack, number_of_nodes,
                   tree_pc_dict, max_tree_id, k, nodeTable, store_at_call,
                   nameTable, request, response, rankedLineageTable>>
    /\ UNCHANGED other_vars

\* import_ranked_lineage: rankedlineage.dmp of the folder is appended to the
\* ranked lineage table
ManagerImportRankedLineage ==
    /\ cls = "DbManager"
    /\ \/ pc = "done" /\ call.method = "import_data"
       \/ pc = "import_ranked_lineage"
    /\ IF unzipped # NoFile
       THEN /\ rankedLineageTable' = rankedLineageTable \o RankedLineageOf(unzipped)
            /\ pc' = After("import_names")
            /\ error' = error
       ELSE /\ rankedLineageTable' = rankedLineageTable
            /\ pc' = "failed"
            /\ error' = "FileNotFoundError"
    /\ UNCHANGED <<cls, df, pc_dict, tree, stack, number_of_nodes,
                   tree_pc_dict, max_tree_id, k, nodeTable, store_at_call,
                   nameTable, request, response>>
    /\ UNCHANGED other_vars

\* import_names: names.dmp of the folder is appended to the name table
ManagerImportNames ==
    /\ cls = "DbManager"
    /\ pc = "import_names"
    /\ IF unzipped # NoFile
       THEN /\ nameTable' = nameTable \o NamesOf(unzipped)
            /\ pc' = After("rmtree")
            /\ error' = error
       ELSE /\ nameTable' = nameTable
            /\ pc' = "failed"
            /\ error' = "FileNotFoundError"
    /\ UNCHANGED <<cls, df, pc_dict, tree, stack, number_of_nodes,
                   tree_pc_dict, max_tree_id, k, nodeTable, store_at_call,
                   request, response, rankedLineageTable>>
    /\ UNCHANGED other_vars

\* the end of import_data: shutil.rmtree of the folder, and the call returns
Rmtree ==
    /\ cls = "DbManager"
    /\ pc = "rmtree"
    /\ unzipped' = IF path_data_folder = DEFAULT_PATH_UNZIPPED_DATA_FOLDER
                   THEN NoFile ELSE unzipped
    /\ pc' = "returned"
    /\ UNCHANGED <<cls, df, error, pc_dict, tree, stack, number_of_nodes,
                   tree_pc_dict, max_tree_id, k, nodeTable, store_at_call,
                   nameTable, request, response, rankedLineageTable, files,
                   path_zip_file, call, path_data_folder>>
    /\ UNCHANGED <<turtle_vars, api_vars>>

NextImportData ==
    \/ SetPathZipFile
    \/ AssignPathZipFile
    \/ CallImportData
    \/ Urlretrieve
    \/ RecreateDb
    \/ ReadCsvZip
    \/ GetParentChildDict
    \/ GetTreeRoot
    \/ GetTreeChild
    \/ GetTreeReturn
    \/ GetTreeDone
    \/ SetRightTreeIdsStart
    \/ SetRightTreeIdsLoop
    \/ ToSql
    \/ ImportRankedLineage
    \/ ImportNamesZip
    \/ RemoveZip
    \/ ManagerImportData
    \/ ManagerCall
    \/ DownloadAndUnzip
    \/ ManagerReadCsv
    \/ ReturnFromMethod
    \/ ManagerImportRankedLineage
    \/ ManagerImportNames
    \/ Rmtree

SpecImportData == InitImportData /\ [][NextImportData]_vars

----------------------------------------------------------------------------
(* The archive, the path and the order of the steps of import_data *)

\* the columns tax_id and parent_tax_id of the rows of the node table
StoredEdges ==
    [i \in DOMAIN nodeTable |->
        [tax_id |-> nodeTable[i].tax_id, parent_tax_id |-> nodeTable[i].parent_tax_id]]

\* the three tables hold the records of the archive and nothing else
StoresRecordsOf(archive) ==
    /\ StoredEdges = NodesOf(archive)
    /\ nameTable = NamesOf(archive)
    /\ rankedLineageTable = RankedLineageOf(archive)

\* import_data of DbImporter has written the three tables and not returned yet
AllWritten == cls = "DbImporter" /\ call.method = "import_data" /\ pc = "remove_zip"

\* C22: when import_data of DbImporter has written its rows, the rows of the
\* three tables are the records of the archive at self._path_zip_file, whatever
\* path the caller set before.
C22_ImportReadsConfiguredArchive ==
    AllWritten => StoresRecordsOf(files[path_zip_file])

\* C27: when import_data returns, the zip file at self._path_zip_file exists
\* with keep_files=True and does not exist with keep_files=False; when
\* import_data raises, every file that was there when it was called is still
\* there.
C27_ZipRemovedUnlessKept ==
    (cls = "DbImporter" /\ call.method = "import_data") =>
        /\ pc = "returned" => (Exists(path_zip_file) <=> call.keep_files)
        /\ pc = "failed" => \A p \in Paths : call.files[p] # NoFile => Exists(p)

\* a call with keep_files=False returned and removed the archive it found
C27_Witness ==
    /\ cls = "DbImporter" /\ call.method = "import_data" /\ pc = "returned"
    /\ ~call.keep_files /\ ~call.force_download
    /\ call.files[path_zip_file] # NoFile
    /\ ~Exists(path_zip_file)

\* C28: _set_path_zip_file(p) raises FileNotFoundError and leaves
\* self._path_zip_file as it was when no file is at p; it raises nothing and
\* sets self._path_zip_file to p when a file is at p.
C28_SetPathChecksFile ==
    call.method = "_set_path_zip_file" =>
        IF Exists(call.path_zip_file)
        THEN pc = "returned" /\ path_zip_file = call.path_zip_file
        ELSE /\ pc = "failed" /\ error = "FileNotFoundError"
             /\ path_zip_file = call.path_before

\* the call named a path with no file, another one than the path it found
C28_Witness ==
    /\ call.method = "_set_path_zip_file"
    /\ ~Exists(call.path_zip_file)
    /\ call.path_zip_file # call.path_before
    /\ pc = "failed"

\* the steps of import_data between recreate_db and the write of the node rows
BeforeNodeWrite ==
    pc \notin Idle \cup {"urlretrieve", "recreate_db", "done", "import_names",
                         "remove_zip"}

\* C29: import_data of DbImporter empties every table, then writes the node
\* rows, then the ranked lineage rows, then the name rows: the ranked lineage
\* and the name table are written only while the node table holds the nodes
\* of this import, and from the first write on the store holds rows of this
\* import only.
C29_StepsInFixedOrder ==
    /\ [](  (cls = "DbImporter" /\ call.method = "import_data") =>
              /\ BeforeNodeWrite =>
                    nodeTable = <<>> /\ rankedLineageTable = <<>> /\ nameTable = <<>>
              /\ pc = "done" =>
                    /\ StoredEdges = df /\ df # <<>>
                    /\ rankedLineageTable = <<>> /\ nameTable = <<>>
              /\ pc = "import_names" =>
                    /\ StoredEdges = df /\ df # <<>>
                    /\ rankedLineageTable # <<>> /\ nameTable = <<>>
              /\ pc = "remove_zip" =>
                    /\ StoredEdges = df /\ df # <<>>
                    /\ rankedLineageTable # <<>> /\ nameTable # <<>>)
    /\ [][(cls = "DbImporter" /\ call.method = "import_data") =>
             /\ (rankedLineageTable' # rankedLineageTable /\ pc # "recreate_db") =>
                    (nodeTable # <<>> /\ nameTable = <<>>)
             /\ (nameTable' # nameTable /\ pc # "recreate_db") =>
                    (nodeTable # <<>> /\ rankedLineageTable # <<>>)]_vars

\* a second import on a store that held the rows of the first has written its
\* three tables
C29_Witness == AllWritten /\ store_at_call # <<>>

----------------------------------------------------------------------------
(* import_data(only_if_db_empty=True) *)

\* C21: DbManager.import_data(only_if_db_empty=True) imports when one of the
\* node, name and ranked lineage tables is empty at the call, and returns
\* without importing only when none of the three is.
C21_ImportsUnlessEveryTableHasData ==
    (cls = "DbManager" /\ call.method = "import_data" /\ call.only_if_db_empty) =>
        (call.imports <=> call.empty_tables # {})
====
